---- MODULE Spec2Model ----
(***************************************************************************)
(* Attendance register: the members / services / attendance_records store  *)
(* (schema.sql), the server actions markAttendance and toggleAttendance    *)
(* (attendance/actions.ts) and the directory actions addMember and         *)
(* addService (admin/page.tsx).                                            *)
(*                                                                         *)
(* Every supabase call is one round trip and one atomic step; a server     *)
(* action is a sequence of such steps, so calls of different requests      *)
(* interleave between round trips.                                         *)
(*                                                                         *)
(* The listings of the pages (getMembers, getServices,                     *)
(* getServiceAttendance, getAttendanceRecords with the grouping of the     *)
(* records page) are one read each; what a listing or a directory action   *)
(* hands to its caller, or throws, is kept in `out`.                       *)
(*                                                                         *)
(* The attendance page (attendance/page.tsx) is the record `page`: its     *)
(* React state, the getServiceAttendance fetches of its selection effect   *)
(* that have not answered, and its timers; the transitions it starts run   *)
(* markAttendance / toggleAttendance in the request slots of `call`.       *)
(***************************************************************************)
EXTENDS Integers, FiniteSets, Sequences, TLC

\* ---------------------------------------------------------------- bounds
NumCalls == 2       \* server-action invocations that may be in flight at once
MaxMembers == 2     \* rows the members table may hold
MaxRecords == 3     \* rows the attendance_records table may hold
MaxHist == 4
\* longest sequence of repairing calls looked at
MaxRepair == 3        \* length of the logged run of back-to-back calls

\* ---------------------------------------------------------------- values
Callers == 1..NumCalls
NoId == 0           \* the empty string passed as an id (falsy in `!memberId`)
BadId == 99         \* a non-empty id that matches no row
MemberIdSet == 1..MaxMembers
RecordIdSet == 1..MaxRecords
NameSet == {"", "Ann"}                  \* "" is the empty form field
ServiceNameSet == {"", "Sunday"}
\* the names entered while the directory and the listings are studied
DirNameSet == {"", "Ann", "Bob"}
DirServiceNameSet == {"", "Midweek", "Sunday"}
NoDate == 0         \* the empty service_date form field
DateSet == {NoDate, 1, 2}
\* description: an empty textarea, or some text
NoText == ""
DescriptionSet == {NoText, "Evening"}
\* UNIQUE(service_date): the services table holds at most one row per date
ServiceIdSet == 1..Cardinality(DateSet \ {NoDate})
\* the dates entered while the attendance calls are studied: one service
CallDates == {NoDate, 1}

\* alphabet filter: no letter, a letter some member's name starts with, and
\* a letter no name starts with
LetterSet == {"", "A", "Z"}
SuccessText == "Attendance marked successfully"

ErrRequired == "Member and service are required"
ErrFetchService == "Failed to fetch service details: "
ErrDuplicate == "Attendance already marked for this member for this service"
ErrMark == "Failed to mark attendance: "
ErrUnmark == "Failed to unmark attendance: "
Success == "success"
NoResult == "none"
ErrFullName == "Full name is required"
ErrAddMember == "Failed to add member: "
ErrServiceRequired == "Service name and date are required"
ErrAddService == "Failed to add service: "
ErrFetchMembers == "Failed to fetch members: "
ErrFetchServices == "Failed to fetch services: "
ErrFetchAttendance == "Failed to fetch service attendance: "
ErrFetchRecords == "Failed to fetch attendance records: "
UnknownService == "Unknown Service"
UnknownMember == "Unknown Member"

VARIABLES
  members,      \* table members: set of [id, full_name]
  services,     \* table services: set of [id, name, service_date]
  records,      \* table attendance_records: set of [id, member_id, service_id, service_date]
  call,         \* per request slot: the server action in flight and its locals
  hist,         \* log of the current run of back-to-back calls for one pair
  hist0,        \* attendance_records when that run began
  out,          \* what the last directory action or listing handed to its caller
  gone,         \* primary keys of deleted rows (a uuid is never handed out twice)
  page          \* the attendance page open in one browser: its React state

vars == <<members, services, records, call, hist, hist0, out, gone, page>>

\* ---------------------------------------------------------------- store
\* rows of attendance_records matching .eq('member_id', m).eq('service_id', s)
RowsFor(recs, m, s) == {r \in recs : r.member_id = m /\ r.service_id = s}

CountFor(recs, m, s) == Cardinality(RowsFor(recs, m, s))

\* rows of services matching .eq('id', s)
ServiceRows(s) == {sv \in services : sv.id = s}

\* .single() on the rows a query matched: data is the row when exactly one
\* row matches; otherwise data is null and an error is reported
SingleOutcome(rows) ==
  IF Cardinality(rows) = 1 THEN "one"
  ELSE IF rows = {} THEN "zero"
  ELSE "many"

\* gen_random_uuid(): a fresh primary key
FreshId(used, pool) ==
  CHOOSE i \in pool : i \notin used /\ \A j \in pool : j \notin used => i <= j

\* REFERENCES members(id) / REFERENCES services(id)
ForeignKeysOk(m, s) ==
  (\E mb \in members : mb.id = m) /\ (\E sv \in services : sv.id = s)

\* the two key columns of the inserted row exchanged
NewRecordSwapped(recs, m, s, d) ==
  [id |-> FreshId({r.id : r \in recs}, RecordIdSet),
   member_id |-> s, service_id |-> m, service_date |-> d]

\* .insert([{ member_id: memberId, service_id: serviceId, service_date }])
NewRecord(recs, m, s, d) ==
  [id |-> FreshId({r.id : r \in recs}, RecordIdSet),
   member_id |-> m, service_id |-> s, service_date |-> d]

\* ---------------------------------------------------------------- calls
\* outcome is what the existence read returned: "one" (data is a row),
\* "zero" / "many" (data null, .single() error), "fault" (data null, the
\* round trip failed); the code looks at data only
IdleCall ==
  [pc |-> "idle", op |-> "none", memberId |-> NoId, serviceId |-> NoId,
   service_date |-> NoDate, outcome |-> "none", result |-> NoResult,
   revalidated |-> FALSE, wrote |-> "none"]

\* the branch condition inverted
existingRecordInverted(c) == call[c].outcome # "one"

\* if (existingRecord)
existingRecord(c) == call[c].outcome = "one"

\* revalidatePath moved in front of every return
FinishedAlwaysRevalidates(cl, res, wrote) ==
  [IdleCall EXCEPT !.pc = "done", !.op = cl.op, !.memberId = cl.memberId,
                   !.serviceId = cl.serviceId, !.outcome = cl.outcome, !.result = res,
                   !.revalidated = TRUE, !.wrote = wrote]

\* what a finished call leaves to look at: its arguments, what its
\* existence read returned, and its result
Finished(cl, res, wrote) ==
  [IdleCall EXCEPT !.pc = "done", !.op = cl.op, !.memberId = cl.memberId,
                   !.serviceId = cl.serviceId, !.outcome = cl.outcome, !.result = res,
                   !.revalidated = (res = Success), !.wrote = wrote]

\* nothing handed out yet: no directory action or listing has run
NoOut == [op |-> "none", arg |-> NoId, raised |-> NoResult, rows |-> <<>>]

NoneGone == [members |-> {}, services |-> {}]

\* AttendancePage: the useState initial values; fetching holds the services
\* whose getServiceAttendance, started by the selection effect, has not
\* answered yet; listFor is the service the held list was fetched for;
\* memberChoice is the value shown by the uncontrolled member <select>;
\* timers holds the setTimeout callbacks not yet run
InitPage ==
  [loading |-> TRUE, selectedLetter |-> "", selectedMemberId |-> NoId,
   selectedServiceId |-> NoId, serviceAttendance |-> {}, listFor |-> NoId,
   memberChoice |-> NoId, successMessage |-> "", errorMessage |-> "",
   fetching |-> {}, timers |-> {}]

TypeOK ==
  /\ \A mb \in members : mb.id \in MemberIdSet /\ mb.full_name \in DirNameSet
  /\ \A sv \in services : sv.id \in ServiceIdSet /\ sv.service_date \in DateSet
  /\ \A r \in records : r.id \in RecordIdSet
  /\ \A c \in Callers : call[c].pc \in {"idle", "fetch", "check", "write", "done", "refresh"}
  /\ Len(hist) <= MaxHist
  /\ Len(out.rows) <= MaxRecords
  /\ gone.members \subseteq MemberIdSet /\ gone.services \subseteq ServiceIdSet
  /\ page.selectedLetter \in LetterSet
  /\ page.selectedServiceId \in {NoId} \cup ServiceIdSet
  /\ page.selectedMemberId \in {NoId} \cup MemberIdSet
  /\ page.serviceAttendance \subseteq [id : RecordIdSet, member_id : MemberIdSet,
                                        service_id : ServiceIdSet, service_date : DateSet]
  /\ page.fetching \subseteq ServiceIdSet
  /\ page.timers \subseteq {"error", "success"}

Init ==
  /\ members = {}
  /\ services = {}
  /\ records = {}
  /\ call = [c \in Callers |-> IdleCall]
  /\ hist = <<>>
  /\ hist0 = {}
  /\ out = NoOut
  /\ gone = NoneGone
  /\ page = InitPage

\* ------------------------------------------------------- server actions
\* only the member id validated
MissingMemberOnly(m, s) == m = NoId

\* if (!memberId || !serviceId)
MissingArgs(m, s) == m = NoId \/ s = NoId

\* a request takes the first free slot; markAttendance / toggleAttendance
\* read their arguments and validate them before the first round trip
Begin(c, op, m, s) ==
  LET started == [IdleCall EXCEPT !.op = op, !.memberId = m, !.serviceId = s]
  IN /\ call[c].pc = "idle"
     /\ \A d \in Callers : d < c => call[d].pc # "idle"
     /\ call' = [call EXCEPT ![c] =
                   IF MissingArgs(m, s) THEN Finished(started, ErrRequired, "none")
                   ELSE [started EXCEPT !.pc = "fetch"]]
     /\ UNCHANGED <<members, services, records>>

\* the date of some service in place of the date of the service read
ServiceDateOfAny(rows) ==
  IF services = {} THEN NoDate ELSE (CHOOSE sv \in services : TRUE).service_date

\* service.service_date of the row read (service is null when no row matched)
ServiceDateOf(rows) ==
  IF rows = {} THEN NoDate ELSE (CHOOSE sv \in rows : TRUE).service_date

\* only the error looked at, a null row let through
ServiceErrorOnly(rows, fault) == fault

\* if (serviceError || !service)
ServiceMissing(rows, fault) == fault \/ SingleOutcome(rows) # "one"

\* supabase.from('services').select('service_date').eq('id', serviceId).single()
\* return { error: 'Failed to fetch service details: ' ... }
FetchService(c, fault) ==
  LET rows == ServiceRows(call[c].serviceId)
  IN /\ call[c].pc = "fetch"
     /\ call' = [call EXCEPT ![c] =
                   IF ServiceMissing(rows, fault)
                     THEN Finished(call[c], ErrFetchService, "none")
                     ELSE [call[c] EXCEPT !.pc = "check",
                             !.service_date = ServiceDateOf(rows)]]
     /\ UNCHANGED <<members, services, records>>

\* the member filter left out of the existence read
ExistenceReadServiceOnly(recs, m, s, fault) ==
  IF fault THEN "fault" ELSE SingleOutcome({r \in recs : r.service_id = s})

\* supabase.from('attendance_records').select('id').eq('member_id', memberId)
\*   .eq('service_id', serviceId).single();  the error of this read is dropped
ExistenceRead(recs, m, s, fault) ==
  IF fault THEN "fault" ELSE SingleOutcome(RowsFor(recs, m, s))

\* markAttendance: if (existingRecord) return { error: 'Attendance already marked ...' }
CheckExisting(c, fault) ==
  LET seen == ExistenceRead(records, call[c].memberId, call[c].serviceId, fault)
  IN /\ call[c].pc = "check"
     /\ call' = [call EXCEPT ![c] =
                   IF seen = "one" /\ call[c].op = "mark"
                     THEN Finished(call[c], ErrDuplicate, "none")
                     ELSE [call[c] EXCEPT !.pc = "write", !.outcome = seen]]
     /\ UNCHANGED <<members, services, records>>

\* a UNIQUE(member_id, service_id) constraint on the table
InsertAcceptedUnique(recs, m, s) == ForeignKeysOk(m, s) /\ RowsFor(recs, m, s) = {}

\* the two filter columns of the delete exchanged
AfterDeleteSwapped(recs, m, s) == recs \ RowsFor(recs, s, m)

\* the member filter left out of the delete
AfterDeleteWholeService(recs, m, s) == {r \in recs : r.service_id # s}

\* the table without its foreign key to members
InsertAcceptedNoMemberKey(recs, m, s) == \E sv \in services : sv.id = s

\* .insert([{ member_id, service_id, service_date }]): the table's only
\* constraints are the two foreign keys
InsertAccepted(recs, m, s) == ForeignKeysOk(m, s)

\* .delete().eq('member_id', m).eq('service_id', s)
AfterDelete(recs, m, s) == recs \ RowsFor(recs, m, s)

\* toggleAttendance, if (existingRecord) branch: delete, then revalidate
Unmark(c, fault) ==
  /\ call[c].pc = "write"
  /\ call[c].op = "toggle"
  /\ existingRecord(c)
  /\ records' = (IF fault THEN records
                 ELSE AfterDelete(records, call[c].memberId, call[c].serviceId))
  /\ call' = [call EXCEPT ![c] =
                IF fault THEN Finished(call[c], ErrUnmark, "none")
                ELSE Finished(call[c], Success, "delete")]
  /\ UNCHANGED <<members, services>>

\* a failed insert tried again from the existence read
MarkRetries(c, fault) ==
  LET ok == ~fault /\ InsertAccepted(records, call[c].memberId, call[c].serviceId)
  IN /\ call[c].pc = "write"
     /\ ~(call[c].op = "toggle" /\ existingRecord(c))
     /\ ok => Cardinality(records) < MaxRecords
     /\ records' = (IF ok
                    THEN records \cup {NewRecord(records, call[c].memberId,
                                                 call[c].serviceId, call[c].service_date)}
                    ELSE records)
     /\ call' = [call EXCEPT ![c] =
                   IF ok THEN Finished(call[c], Success, "insert")
                   ELSE [call[c] EXCEPT !.pc = "check"]]
     /\ UNCHANGED <<members, services>>

\* markAttendance, and toggleAttendance's else branch: insert, then revalidate
Mark(c, fault) ==
  LET ok == ~fault /\ InsertAccepted(records, call[c].memberId, call[c].serviceId)
  IN /\ call[c].pc = "write"
     /\ ~(call[c].op = "toggle" /\ existingRecord(c))
     /\ ok => Cardinality(records) < MaxRecords
     /\ records' = (IF ok
                    THEN records \cup {NewRecord(records, call[c].memberId,
                                                 call[c].serviceId, call[c].service_date)}
                    ELSE records)
     /\ call' = [call EXCEPT ![c] =
                   IF ok THEN Finished(call[c], Success, "insert")
                   ELSE Finished(call[c], ErrMark, "none")]
     /\ UNCHANGED <<members, services>>

\* the result reaches the caller; the request is over
Return(c) ==
  /\ call[c].pc = "done"
  /\ call' = [call EXCEPT ![c] = IdleCall]
  /\ UNCHANGED <<members, services, records>>

\* a whole call run on its own, as a function of the table it starts from:
\* validation, service read, existence read, then the delete or the insert;
\* f1, f2, f3 tell which of its three round trips fail
AfterCall(recs, op, m, s, f1, f2, f3) ==
  LET rows == ServiceRows(s)
      seen == ExistenceRead(recs, m, s, f2)
      row == [id |-> FreshId({r.id : r \in recs}, 1..(MaxRecords + MaxRepair)),
              member_id |-> m, service_id |-> s, service_date |-> ServiceDateOf(rows)]
  IN IF MissingArgs(m, s) \/ ServiceMissing(rows, f1) THEN recs
     ELSE IF seen = "one"
       THEN (IF op = "mark" \/ f3 THEN recs ELSE AfterDelete(recs, m, s))
       ELSE (IF ~f3 /\ InsertAccepted(recs, m, s) THEN recs \cup {row} ELSE recs)

\* the .eq('service_id', serviceId) filter left out
getServiceAttendanceAll(serviceId) == records

\* getServiceAttendance: .from('attendance_records').select('*').eq('service_id', serviceId)
getServiceAttendance(serviceId) == {r \in records : r.service_id = serviceId}

\* ------------------------------------------------------- directory actions
\* a duplicate-name check in front of the insert
addMemberUniqueName(full_name, fault) ==
  LET ok == full_name # "" /\ ~fault /\ ~\E mb \in members : mb.full_name = full_name
      used == {mb.id : mb \in members} \cup gone.members
  IN /\ ok => Cardinality(used) < MaxMembers
     /\ members' = (IF ok
                    THEN members \cup {[id |-> FreshId(used, MemberIdSet),
                                        full_name |-> full_name]}
                    ELSE members)
     /\ UNCHANGED <<services, records, call>>

\* the insert moved in front of the required-field check
addMemberInsertFirst(full_name, fault) ==
  LET ok == ~fault
      used == {mb.id : mb \in members} \cup gone.members
  IN /\ ok => Cardinality(used) < MaxMembers
     /\ members' = (IF ok
                    THEN members \cup {[id |-> FreshId(used, MemberIdSet),
                                        full_name |-> full_name]}
                    ELSE members)
     /\ UNCHANGED <<services, records, call>>

\* addMember: if (!full_name) throw; insert; if (error) throw; redirect
addMember(full_name, fault) ==
  LET ok == full_name # "" /\ ~fault
      used == {mb.id : mb \in members} \cup gone.members
  IN /\ ok => Cardinality(used) < MaxMembers
     /\ members' = (IF ok
                    THEN members \cup {[id |-> FreshId(used, MemberIdSet),
                                        full_name |-> full_name]}
                    ELSE members)
     /\ UNCHANGED <<services, records, call>>

\* the table without its UNIQUE(service_date)
DateTakenNever(d) == FALSE

\* UNIQUE(service_date)
DateTaken(d) == \E sv \in services : sv.service_date = d

\* only the name required
ServiceFieldsMissingNameOnly(name, description, service_date) == name = ""

\* if (!name || !service_date): the description is read and never examined
ServiceFieldsMissing(name, description, service_date) ==
  name = "" \/ service_date = NoDate

\* addService: if (!name || !service_date) throw; insert; if (error) throw; redirect
addService(name, description, service_date, fault) ==
  LET ok == /\ ~ServiceFieldsMissing(name, description, service_date)
            /\ ~fault /\ ~DateTaken(service_date)
      used == {sv.id : sv \in services} \cup gone.services
  IN /\ ok => used # ServiceIdSet
     /\ services' = (IF ok
                     THEN services \cup {[id |-> FreshId(used, ServiceIdSet),
                                          name |-> name, description |-> description,
                                          service_date |-> service_date]}
                     ELSE services)
     /\ UNCHANGED <<members, records, call>>

\* ids a page can submit: the empty selection, a listed row, or a stale id
MemberArgs == {NoId, BadId} \cup {mb.id : mb \in members}
ServiceArgs == {NoId, BadId} \cup {sv.id : sv \in services}

\* what addMember throws: '' when it runs through to the redirect
addMemberThrows(full_name, fault) ==
  IF full_name = "" THEN ErrFullName
  ELSE IF fault THEN ErrAddMember
  ELSE NoResult

\* what addService throws; a taken date is a failed insert like any other
addServiceThrows(name, description, service_date, fault) ==
  IF ServiceFieldsMissing(name, description, service_date) THEN ErrServiceRequired
  ELSE IF fault \/ DateTaken(service_date) THEN ErrAddService
  ELSE NoResult

\* the admin form submitted: the server action and what reaches its caller
SubmitMember(full_name, fault) ==
  /\ addMember(full_name, fault)
  /\ out' = [NoOut EXCEPT !.op = "addMember", !.raised = addMemberThrows(full_name, fault)]

SubmitService(name, description, service_date, fault) ==
  /\ addService(name, description, service_date, fault)
  /\ out' = [NoOut EXCEPT !.op = "addService",
                          !.raised = addServiceThrows(name, description, service_date, fault)]

\* ------------------------------------------------------- store deletes
\* member_id UUID REFERENCES members(id) ON DELETE CASCADE: a member row
\* deleted in the store takes its attendance records with it
deleteMember(id) ==
  /\ \E mb \in members : mb.id = id
  /\ members' = {mb \in members : mb.id # id}
  /\ records' = {r \in records : r.member_id # id}
  /\ gone' = [gone EXCEPT !.members = @ \cup {id}]
  /\ UNCHANGED <<services, call>>

\* service_id UUID REFERENCES services(id) ON DELETE CASCADE
deleteService(id) ==
  /\ \E sv \in services : sv.id = id
  /\ services' = {sv \in services : sv.id # id}
  /\ records' = {r \in records : r.service_id # id}
  /\ gone' = [gone EXCEPT !.services = @ \cup {id}]
  /\ UNCHANGED <<members, call>>

\* ------------------------------------------------------- listings
\* the orders .order() can return a set of rows in; rows the order does not
\* tell apart come in any order
Perms(S) ==
  {f \in [1..Cardinality(S) -> S] : \A i, j \in 1..Cardinality(S) : i # j => f[i] # f[j]}

\* .order(column): key gives each row its place in the order
Ordered(S, key) ==
  {f \in Perms(S) : \A i, j \in DOMAIN f : i < j => key[f[i]] <= key[f[j]]}

\* the strings of the model in lexicographic order
Alphabet == <<"Ann", "Bob", "Midweek", "Sunday", "Unknown Member", "Unknown Service">>

Rank(str) == CHOOSE i \in DOMAIN Alphabet : Alphabet[i] = str

\* a.localeCompare(b)
localeCompare(a, b) == Rank(a) - Rank(b)

\* created_at DEFAULT NOW(): primary keys are handed out in creation order,
\* so the key stands for the creation time
CreatedAt(row) == row.id

\* .order('created_at', { ascending: false })
ByCreatedAtDescending(rows) == [r \in rows |-> 0 - CreatedAt(r)]

\* the name order reversed
ByFullNameDescending(rows) == [r \in rows |-> 0 - Rank(r.full_name)]

\* .order('full_name')
ByFullName(rows) == [r \in rows |-> Rank(r.full_name)]

\* { ascending: false } left out
ByServiceDateAscending(rows) == [r \in rows |-> r.service_date]

\* .order('service_date', { ascending: false })
ByServiceDateDescending(rows) == [r \in rows |-> 0 - r.service_date]

\* a listing either throws or hands its rows to the page
Listing(op, arg, fault, err, results) ==
  /\ \/ fault /\ out' = [NoOut EXCEPT !.op = op, !.arg = arg, !.raised = err]
     \/ ~fault /\ \E rows \in results : out' = [NoOut EXCEPT !.op = op, !.arg = arg, !.rows = rows]
  /\ UNCHANGED <<members, services, records, call, hist, hist0, gone, page>>

\* attendance page: .from('members').select('id, full_name').order('full_name')
getMembers(fault) ==
  Listing("getMembers", NoId, fault, ErrFetchMembers, Ordered(members, ByFullName(members)))

\* admin page: .from('members').select('*').order('created_at', { ascending: false })
adminGetMembers(fault) ==
  Listing("adminGetMembers", NoId, fault, ErrFetchMembers,
          Ordered(members, ByCreatedAtDescending(members)))

\* .from('services').select('*').order('service_date', { ascending: false })
getServices(fault) ==
  Listing("getServices", NoId, fault, ErrFetchServices,
          Ordered(services, ByServiceDateDescending(services)))

\* fetchAttendance effect: if (selectedServiceId) getServiceAttendance(...)
\* else setServiceAttendance([]); the query has no .order()
fetchAttendance(selectedServiceId, fault) ==
  IF selectedServiceId # NoId
    THEN Listing("getServiceAttendance", selectedServiceId, fault, ErrFetchAttendance,
                 Perms(getServiceAttendance(selectedServiceId)))
    ELSE Listing("getServiceAttendance", selectedServiceId, FALSE, NoResult, {<<>>})

\* select(`id, service_date, services ( name ), members ( full_name )`):
\* each record with the related rows embedded as the interface declares them
Embedded(r) ==
  [id |-> r.id, service_date |-> r.service_date,
   services |-> IF \E sv \in services : sv.id = r.service_id
                THEN <<[name |-> (CHOOSE sv \in services : sv.id = r.service_id).name]>>
                ELSE <<>>,
   members |-> IF \E mb \in members : mb.id = r.member_id
               THEN <<[full_name |-> (CHOOSE mb \in members : mb.id = r.member_id).full_name]>>
               ELSE <<>>]

\* getAttendanceRecords: ... .order('service_date', { ascending: false })
getAttendanceRecords(fault) ==
  LET rows == {Embedded(r) : r \in records}
  IN Listing("getAttendanceRecords", NoId, fault, ErrFetchRecords,
             Ordered(rows, ByServiceDateDescending(rows)))

\* record.services?.[0]?.name || 'Unknown Service'
serviceNameOf(record) ==
  IF record.services # <<>> /\ record.services[1].name # ""
  THEN record.services[1].name ELSE UnknownService

\* record.members?.[0]?.full_name || 'Unknown Member'
memberNameOf(record) ==
  IF record.members # <<>> /\ record.members[1].full_name # ""
  THEN record.members[1].full_name ELSE UnknownMember

\* the reduce of RecordsPage: service name -> the records carrying it, in order
recordsByService(rows) ==
  [k \in {serviceNameOf(rows[i]) : i \in DOMAIN rows} |->
     SelectSeq(rows, LAMBDA r : serviceNameOf(r) = k)]

\* Object.entries(recordsByService).sort(([a], [b]) => a.localeCompare(b)):
\* the keys in the order the page shows the groups (keys are distinct)
GroupKeys(rows) ==
  CHOOSE ks \in Perms(DOMAIN recordsByService(rows)) :
    \A i, j \in DOMAIN ks : i < j => localeCompare(ks[i], ks[j]) <= 0

\* ------------------------------------------------------- attendance page
\* The page shows the members and services it loaded; the directory is
\* filled before the page is opened, so these are the rows of the store.

\* const [isPending, startTransition] = useTransition(): an async function
\* handed to startTransition has not returned
isPending == \E c \in Callers : call[c].pc # "idle"

\* member.full_name.toLowerCase().startsWith(selectedLetter.toLowerCase())
FirstLetter(full_name) ==
  CASE full_name = "Ann" -> "A"
    [] full_name = "Bob" -> "B"
    [] OTHER -> ""

\* useMemo: if (!selectedLetter) return members; return members.filter(...)
filteredMembers ==
  IF page.selectedLetter = "" THEN members
  ELSE {mb \in members : FirstLetter(mb.full_name) = page.selectedLetter}

\* the submit button: disabled={isPending || !selectedServiceId || selectedLetter
\*   ? filteredMembers.length === 0 || !selectedMemberId
\*   : members.length === 0 || !selectedMemberId}
\* the conditional operator binds more loosely than ||
SubmitDisabled ==
  IF isPending \/ page.selectedServiceId = NoId \/ page.selectedLetter # ""
  THEN filteredMembers = {} \/ page.selectedMemberId = NoId
  ELSE members = {} \/ page.selectedMemberId = NoId

\* the Present / Absent buttons: disabled={isPending}
ToggleDisabled == isPending

\* the browser submits the form only when its required <select>s hold a
\* value: the service select (value={selectedServiceId}) and, when no letter
\* is selected, the member select
FormValid ==
  /\ page.selectedServiceId # NoId
  /\ page.selectedLetter = "" => page.memberChoice # NoId

\* the table of toggle buttons is rendered for a selected service whose
\* held list is not empty
TableShown == page.selectedServiceId # NoId /\ page.serviceAttendance # {}

\* useEffect(fetchData, []): getMembers and getServices, then setLoading(false);
\* a throw leaves the page on 'Loading...'
LoadPage(fault) ==
  /\ page.loading
  /\ page' = (IF fault THEN page ELSE [page EXCEPT !.loading = FALSE])
  /\ UNCHANGED <<members, services, records, call>>

\* the service <select>: onChange={(e) => setSelectedServiceId(e.target.value)};
\* then useEffect(fetchAttendance, [selectedServiceId]) starts a fetch, or
\* empties the list when the selection is empty
SelectService(s) ==
  /\ ~page.loading
  /\ s \in {NoId} \cup {sv.id : sv \in services}
  /\ s # page.selectedServiceId
  /\ page' = (IF s = NoId
              THEN [page EXCEPT !.selectedServiceId = s, !.serviceAttendance = {},
                                !.listFor = NoId]
              ELSE [page EXCEPT !.selectedServiceId = s, !.fetching = @ \cup {s}])
  /\ UNCHANGED <<members, services, records, call>>

\* fetchAttendance: const attendanceData = await getServiceAttendance(selectedServiceId);
\* setServiceAttendance(attendanceData), with the id the effect started with
AttendanceArrives(s, fault) ==
  /\ s \in page.fetching
  /\ page' = (IF fault THEN [page EXCEPT !.fetching = @ \ {s}]
              ELSE [page EXCEPT !.fetching = @ \ {s},
                                !.serviceAttendance = getServiceAttendance(s),
                                !.listFor = s])
  /\ UNCHANGED <<members, services, records, call>>

\* the alphabet buttons: onClick={() => setSelectedLetter(letter)}; the member
\* <select> is rendered only while no letter is selected
SetLetter(letter) ==
  /\ ~page.loading
  /\ letter # page.selectedLetter
  /\ page' = [page EXCEPT !.selectedLetter = letter, !.memberChoice = NoId]
  /\ UNCHANGED <<members, services, records, call>>

\* the member <select>: onChange={(e) => setSelectedMemberId(e.target.value)}
ChooseMember(m) ==
  /\ ~page.loading
  /\ page.selectedLetter = ""
  /\ m \in {NoId} \cup {mb.id : mb \in members}
  /\ m # page.memberChoice
  /\ page' = [page EXCEPT !.selectedMemberId = m, !.memberChoice = m]
  /\ UNCHANGED <<members, services, records, call>>

\* the filtered list: onClick={() => setSelectedMemberId(member.id)}
ClickMember(m) ==
  /\ ~page.loading
  /\ page.selectedLetter # ""
  /\ m \in {mb.id : mb \in filteredMembers}
  /\ page' = [page EXCEPT !.selectedMemberId = m]
  /\ UNCHANGED <<members, services, records>>
  /\ UNCHANGED call

\* <form action>: startTransition(async () => { await markAttendance(formData) ... });
\* the hidden inputs carry selectedMemberId and selectedServiceId
SubmitForm(c) ==
  /\ ~page.loading
  /\ ~SubmitDisabled
  /\ FormValid
  /\ Begin(c, "mark", page.selectedMemberId, page.selectedServiceId)
  /\ UNCHANGED page

\* a Present / Absent button: startTransition(async () => {
\*   await toggleAttendance(member.id, selectedServiceId) ... })
ClickToggle(c, m) ==
  /\ ~page.loading
  /\ TableShown
  /\ ~ToggleDisabled
  /\ m \in {mb.id : mb \in members}
  /\ Begin(c, "toggle", m, page.selectedServiceId)
  /\ UNCHANGED page

\* the form's transition after markAttendance returned: the error shown, or
\* the success shown, the selections reset (the selection effect then
\* empties the list) and the list fetched again for the service the form
\* was submitted with
MarkResult(c) ==
  /\ call[c].pc = "done"
  /\ call[c].op = "mark"
  /\ IF call[c].result # Success
     THEN /\ page' = [page EXCEPT !.errorMessage = call[c].result, !.successMessage = "",
                                  !.timers = @ \cup {"error"}]
          /\ call' = [call EXCEPT ![c] = IdleCall]
     ELSE /\ page' = [page EXCEPT
                        !.successMessage = SuccessText, !.errorMessage = "",
                        !.selectedMemberId = NoId, !.selectedServiceId = NoId,
                        !.selectedLetter = "",
                        !.memberChoice = IF page.selectedLetter = "" THEN @ ELSE NoId,
                        !.serviceAttendance = IF page.selectedServiceId = NoId THEN @ ELSE {},
                        !.listFor = IF page.selectedServiceId = NoId THEN @ ELSE NoId]
          /\ call' = [call EXCEPT ![c].pc = "refresh"]
  /\ UNCHANGED <<members, services, records>>

\* a toggle's transition after toggleAttendance returned: the error shown, or
\* the list fetched again for the service the button was rendered with
ToggleResult(c) ==
  /\ call[c].pc = "done"
  /\ call[c].op = "toggle"
  /\ IF call[c].result # Success
     THEN /\ page' = [page EXCEPT !.errorMessage = call[c].result, !.successMessage = "",
                                  !.timers = @ \cup {"error"}]
          /\ call' = [call EXCEPT ![c] = IdleCall]
     ELSE /\ page' = page
          /\ call' = [call EXCEPT ![c].pc = "refresh"]
  /\ UNCHANGED <<members, services, records>>

\* const attendanceData = await getServiceAttendance(selectedServiceId);
\* setServiceAttendance(attendanceData); then the form arms the timer of its
\* success message, a toggle clears the error message; a throw ends the
\* transition there
RefreshArrives(c, fault) ==
  LET s == call[c].serviceId
      shown == [page EXCEPT !.serviceAttendance = getServiceAttendance(s), !.listFor = s]
  IN /\ call[c].pc = "refresh"
     /\ page' = (IF fault THEN page
                 ELSE IF call[c].op = "mark"
                   THEN [shown EXCEPT !.timers = @ \cup {"success"}]
                   ELSE [shown EXCEPT !.errorMessage = ""])
     /\ call' = [call EXCEPT ![c] = IdleCall]
     /\ UNCHANGED <<members, services, records>>

\* setTimeout(() => setErrorMessage(''), 5000) / setTimeout(() => setSuccessMessage(''), 3000)
TimerFires(which) ==
  /\ which \in page.timers
  /\ page' = (IF which = "error"
              THEN [page EXCEPT !.errorMessage = "", !.timers = @ \ {which}]
              ELSE [page EXCEPT !.successMessage = "", !.timers = @ \ {which}])
  /\ UNCHANGED <<members, services, records, call>>

\* ------------------------------------------------------- the run log
\* A run is a series of calls for one (memberId, serviceId), each begun
\* after the previous one returned and each answered by the store without
\* a fault.  It is observation only: no action reads it.
StartsRun(m, s) ==
  \/ hist = <<>>
  \/ Len(hist) = MaxHist
  \/ hist[1].memberId # m
  \/ hist[1].serviceId # s

Entry(cl) ==
  [op |-> cl.op, memberId |-> cl.memberId, serviceId |-> cl.serviceId,
   result |-> cl.result]

Log(c, fault) ==
  LET fresh == call[c].pc = "idle" /\ StartsRun(call'[c].memberId, call'[c].serviceId)
      base == IF fresh THEN <<>> ELSE hist
      faulty == fault \/ call[c].outcome = "fault"
      ended == call'[c].pc = "done"
  IN /\ hist' = (IF ~ended THEN base
                 ELSE IF faulty THEN <<>>
                 ELSE Append(base, Entry(call'[c])))
     /\ hist0' = (IF ended /\ faulty THEN {}
                  ELSE IF fresh THEN records
                  ELSE hist0)

\* ------------------------------------------------------- specifications
\* requests of several users: up to NumCalls server actions interleave
Next ==
  \/ \E c \in Callers, op \in {"mark", "toggle"}, m \in MemberArgs, s \in ServiceArgs :
       Begin(c, op, m, s) /\ UNCHANGED <<hist, hist0, out, gone, page>>
  \/ \E c \in Callers, fault \in BOOLEAN : FetchService(c, fault) /\ UNCHANGED <<hist, hist0, out, gone, page>>
  \/ \E c \in Callers, fault \in BOOLEAN : CheckExisting(c, fault) /\ UNCHANGED <<hist, hist0, out, gone, page>>
  \/ \E c \in Callers, fault \in BOOLEAN : Unmark(c, fault) /\ UNCHANGED <<hist, hist0, out, gone, page>>
  \/ \E c \in Callers, fault \in BOOLEAN : Mark(c, fault) /\ UNCHANGED <<hist, hist0, out, gone, page>>
  \/ \E c \in Callers : Return(c) /\ UNCHANGED <<hist, hist0, out, gone, page>>
  \/ \E n \in NameSet, fault \in BOOLEAN : addMember(n, fault) /\ UNCHANGED <<hist, hist0, out, gone, page>>
  \/ \E n \in ServiceNameSet, d \in CallDates, fault \in BOOLEAN :
       addService(n, NoText, d, fault) /\ UNCHANGED <<hist, hist0, out, gone, page>>

Spec == Init /\ [][Next]_vars

\* calls between their validation and their return
InFlight == {c \in Callers : call[c].pc \in {"fetch", "check", "write"}}

\* a call is admitted while the table has room for the insert of every call
\* under way, so that no call waits on the size of the table
Admitted == Cardinality(records) + Cardinality(InFlight) < MaxRecords

\* the store answers a round trip of call c, with a result or with an error
Answer(c) ==
  \E fault \in BOOLEAN :
    /\ FetchService(c, fault) \/ CheckExisting(c, fault) \/ Unmark(c, fault) \/ Mark(c, fault)
    /\ UNCHANGED <<hist, hist0, out, gone, page>>

LiveNext ==
  \/ \E c \in Callers, op \in {"mark", "toggle"}, m \in MemberArgs, s \in ServiceArgs :
       Admitted /\ Begin(c, op, m, s) /\ UNCHANGED <<hist, hist0, out, gone, page>>
  \/ \E c \in Callers, fault \in BOOLEAN : FetchService(c, fault) /\ UNCHANGED <<hist, hist0, out, gone, page>>
  \/ \E c \in Callers, fault \in BOOLEAN : CheckExisting(c, fault) /\ UNCHANGED <<hist, hist0, out, gone, page>>
  \/ \E c \in Callers, fault \in BOOLEAN : Unmark(c, fault) /\ UNCHANGED <<hist, hist0, out, gone, page>>
  \/ \E c \in Callers, fault \in BOOLEAN : Mark(c, fault) /\ UNCHANGED <<hist, hist0, out, gone, page>>
  \/ \E c \in Callers : Return(c) /\ UNCHANGED <<hist, hist0, out, gone, page>>
  \/ \E n \in NameSet : addMember(n, FALSE) /\ UNCHANGED <<hist, hist0, out, gone, page>>
  \/ \E n \in ServiceNameSet, d \in CallDates :
       addService(n, NoText, d, FALSE) /\ UNCHANGED <<hist, hist0, out, gone, page>>

\* every store round trip eventually answers
SpecLive == Init /\ [][LiveNext]_vars /\ \A c \in Callers : WF_vars(Answer(c))

\* one request at a time: each call begins after the previous one returned
SeqNext ==
  \/ \E op \in {"mark", "toggle"}, m \in MemberArgs, s \in ServiceArgs :
       Begin(1, op, m, s) /\ Log(1, FALSE) /\ UNCHANGED <<out, gone, page>>
  \/ \E fault \in BOOLEAN : FetchService(1, fault) /\ Log(1, fault) /\ UNCHANGED <<out, gone, page>>
  \/ \E fault \in BOOLEAN : CheckExisting(1, fault) /\ Log(1, fault) /\ UNCHANGED <<out, gone, page>>
  \/ \E fault \in BOOLEAN : Unmark(1, fault) /\ Log(1, fault) /\ UNCHANGED <<out, gone, page>>
  \/ \E fault \in BOOLEAN : Mark(1, fault) /\ Log(1, fault) /\ UNCHANGED <<out, gone, page>>
  \/ Return(1) /\ UNCHANGED <<hist, hist0, out, gone, page>>
  \/ \E n \in NameSet, fault \in BOOLEAN : addMember(n, fault) /\ UNCHANGED <<hist, hist0, out, gone, page>>
  \/ \E n \in ServiceNameSet, d \in CallDates, fault \in BOOLEAN :
       addService(n, NoText, d, fault) /\ UNCHANGED <<hist, hist0, out, gone, page>>

SpecSeq == Init /\ [][SeqNext]_vars

\* a step that hands nothing to a page
Quiet == out' = NoOut /\ UNCHANGED <<hist, hist0, gone, page>>

\* one request at a time marking or toggling
CallStep ==
  \/ \E op \in {"mark", "toggle"}, m \in MemberArgs, s \in ServiceArgs :
       Begin(1, op, m, s) /\ Quiet
  \/ \E fault \in BOOLEAN : FetchService(1, fault) /\ Quiet
  \/ \E fault \in BOOLEAN : CheckExisting(1, fault) /\ Quiet
  \/ \E fault \in BOOLEAN : Unmark(1, fault) /\ Quiet
  \/ \E fault \in BOOLEAN : Mark(1, fault) /\ Quiet
  \/ Return(1) /\ Quiet

\* the directory: the admin forms with what they throw, services on two
\* dates, and the attendance calls
DirNext ==
  \/ CallStep
  \/ \E n \in NameSet, fault \in BOOLEAN :
       SubmitMember(n, fault) /\ UNCHANGED <<hist, hist0, gone, page>>
  \/ \E n \in ServiceNameSet, d \in DateSet, fault \in BOOLEAN :
       SubmitService(n, NoText, d, fault) /\ UNCHANGED <<hist, hist0, gone, page>>

SpecDir == Init /\ [][DirNext]_vars

\* the admin forms alone, with every field value they can carry
AdminNext ==
  \/ \E n \in DirNameSet, fault \in BOOLEAN :
       SubmitMember(n, fault) /\ UNCHANGED <<hist, hist0, gone, page>>
  \/ \E n \in DirServiceNameSet, x \in DescriptionSet, d \in DateSet, fault \in BOOLEAN :
       SubmitService(n, x, d, fault) /\ UNCHANGED <<hist, hist0, gone, page>>

SpecAdmin == Init /\ [][AdminNext]_vars

\* the directory with rows deleted in the store
CascadeNext ==
  \/ CallStep
  \/ \E n \in NameSet, fault \in BOOLEAN :
       SubmitMember(n, fault) /\ UNCHANGED <<hist, hist0, gone, page>>
  \/ \E n \in ServiceNameSet, d \in CallDates, fault \in BOOLEAN :
       SubmitService(n, NoText, d, fault) /\ UNCHANGED <<hist, hist0, gone, page>>
  \/ \E id \in MemberIdSet : deleteMember(id) /\ out' = NoOut /\ UNCHANGED <<hist, hist0, page>>
  \/ \E id \in ServiceIdSet : deleteService(id) /\ out' = NoOut /\ UNCHANGED <<hist, hist0, page>>

SpecCascade == Init /\ [][CascadeNext]_vars

\* the toggles of the attendance table for listed rows; the existence read
\* may fail, which is how a pair comes to have two records
ToggleStep ==
  \/ \E m \in {mb.id : mb \in members}, s \in {sv.id : sv \in services} :
       Begin(1, "toggle", m, s) /\ Quiet
  \/ FetchService(1, FALSE) /\ Quiet
  \/ \E fault \in BOOLEAN : CheckExisting(1, fault) /\ Quiet
  \/ Unmark(1, FALSE) /\ Quiet
  \/ Mark(1, FALSE) /\ Quiet
  \/ Return(1) /\ Quiet

\* the listings, loaded between requests; the store they read is any store
\* the directory and the toggles produce
ListNext ==
  \/ ToggleStep
  \/ \E n \in DirNameSet : SubmitMember(n, FALSE) /\ UNCHANGED <<hist, hist0, gone, page>>
  \/ \E n \in DirServiceNameSet, d \in DateSet :
       SubmitService(n, NoText, d, FALSE) /\ UNCHANGED <<hist, hist0, gone, page>>
  \/ call[1].pc = "idle" /\ \E fault \in BOOLEAN : getMembers(fault)
  \/ call[1].pc = "idle" /\ \E fault \in BOOLEAN : adminGetMembers(fault)
  \/ call[1].pc = "idle" /\ \E fault \in BOOLEAN : getServices(fault)
  \/ call[1].pc = "idle" /\ \E s \in ServiceArgs, fault \in BOOLEAN : fetchAttendance(s, fault)
  \/ call[1].pc = "idle" /\ \E fault \in BOOLEAN : getAttendanceRecords(fault)

SpecList == Init /\ [][ListNext]_vars

\* the attendance page in one browser: the directory is filled (here with
\* one member and one service), the page is opened, then selections,
\* submissions and toggles interleave with the answers of the store
Still == UNCHANGED <<hist, hist0, out, gone>>

PageNext ==
  \/ \E n \in NameSet :
       page.loading /\ members = {} /\ addMember(n, FALSE) /\ UNCHANGED page /\ Still
  \/ \E n \in ServiceNameSet, d \in CallDates :
       page.loading /\ addService(n, NoText, d, FALSE) /\ UNCHANGED page /\ Still
  \/ \E fault \in BOOLEAN : LoadPage(fault) /\ Still
  \/ \E s \in ServiceArgs : SelectService(s) /\ Still
  \/ \E s \in ServiceIdSet : AttendanceArrives(s, FALSE) /\ Still
  \/ \E letter \in LetterSet : SetLetter(letter) /\ Still
  \/ \E m \in MemberArgs : ChooseMember(m) /\ Still
  \/ \E m \in MemberIdSet : ClickMember(m) /\ Still
  \/ \E c \in Callers : SubmitForm(c) /\ Still
  \/ \E c \in Callers, m \in MemberIdSet : ClickToggle(c, m) /\ Still
  \/ \E c \in Callers, fault \in BOOLEAN : FetchService(c, fault) /\ UNCHANGED page /\ Still
  \/ \E c \in Callers, fault \in BOOLEAN : CheckExisting(c, fault) /\ UNCHANGED page /\ Still
  \/ \E c \in Callers, fault \in BOOLEAN : Unmark(c, fault) /\ UNCHANGED page /\ Still
  \/ \E c \in Callers, fault \in BOOLEAN : Mark(c, fault) /\ UNCHANGED page /\ Still
  \/ \E c \in Callers : MarkResult(c) /\ Still
  \/ \E c \in Callers : ToggleResult(c) /\ Still
  \/ \E c \in Callers : RefreshArrives(c, FALSE) /\ Still
  \/ \E which \in {"error", "success"} : TimerFires(which) /\ Still

SpecPage == Init /\ [][PageNext]_vars

\* ------------------------------------------------------- properties
PairOf(e) == <<e.memberId, e.serviceId>>

\* the run log holds only calls of one op, for a pair that exists and had
\* no record when the run began
RunOf(op) ==
  /\ hist # <<>>
  /\ \A i \in 1..Len(hist) : hist[i].op = op
  /\ ForeignKeysOk(hist[1].memberId, hist[1].serviceId)
  /\ CountFor(hist0, hist[1].memberId, hist[1].serviceId) = 0

\* attendance_records after one insert for the run's pair into hist0
AfterFirstMark ==
  hist0 \cup {NewRecord(hist0, hist[1].memberId, hist[1].serviceId,
                        ServiceDateOf(ServiceRows(hist[1].serviceId)))}

\* C1: in every reachable state, under any interleaving of markAttendance
\* and toggleAttendance calls, each (member, service) pair has at most one
\* attendance record.
C1_AtMostOneRecordPerPair ==
  \A m \in MemberIdSet, s \in ServiceIdSet : CountFor(records, m, s) <= 1

\* C2: from no record for an existing pair, two markAttendance calls in
\* sequence: the first returns success and inserts one record, the second
\* returns the duplicate error and leaves the table as the first left it.
C2_MarkTwiceKeepsOne ==
  RunOf("mark") =>
    /\ hist[1].result = Success
    /\ records = AfterFirstMark
    /\ CountFor(records, hist[1].memberId, hist[1].serviceId) = 1
    /\ \A i \in 2..Len(hist) : hist[i].result = ErrDuplicate

C2_Witness ==
  /\ RunOf("mark")
  /\ Len(hist) = 2
  /\ hist[2].result = ErrDuplicate
  /\ call[1].pc = "done"
  /\ hist0 # {}

\* C3: from no record for an existing pair, toggleAttendance calls in
\* sequence all succeed; after an even number of them (two, four) the table
\* is back as it was, after an odd number the pair has exactly one record.
C3_ToggleParity ==
  RunOf("toggle") =>
    /\ \A i \in 1..Len(hist) : hist[i].result = Success
    /\ CountFor(records, hist[1].memberId, hist[1].serviceId) = Len(hist) % 2
    /\ Len(hist) % 2 = 0 => records = hist0

C3_Witness ==
  /\ RunOf("toggle")
  /\ Len(hist) = 4
  /\ records = hist0

\* C4: a markAttendance or toggleAttendance call given an empty memberId or
\* an empty serviceId ends at once with 'Member and service are required'
\* and members, services and attendance_records stay as they were.
C4_MissingArgsRejected ==
  [][\A c \in Callers :
       (/\ call[c].pc = "idle"
        /\ call'[c].pc # "idle"
        /\ (call'[c].memberId = NoId \/ call'[c].serviceId = NoId))
       => /\ call'[c].pc = "done"
          /\ call'[c].result = ErrRequired
          /\ UNCHANGED <<members, services, records>>]_vars

C4_Witness ==
  \E c \in Callers :
    /\ call[c].pc = "done"
    /\ call[c].result = ErrRequired
    /\ call[c].memberId # NoId
    /\ call[c].serviceId = NoId
    /\ records # {}

\* C5: a call whose existence read found no record and whose insert the
\* store answers succeeds and adds one record for its pair, whatever other
\* calls inserted since that read; so two calls that both read 'absent'
\* both succeed and leave two records for the pair.
C5_InsertAfterAbsentSucceeds ==
  [][\A c \in Callers :
       (/\ call[c].pc = "write"
        /\ call[c].outcome = "zero"
        /\ ForeignKeysOk(call[c].memberId, call[c].serviceId)
        /\ Mark(c, FALSE))
       => /\ call'[c].result = Success
          /\ CountFor(records', call[c].memberId, call[c].serviceId)
               = CountFor(records, call[c].memberId, call[c].serviceId) + 1]_vars

C5_Witness ==
  \E c, d \in Callers :
    /\ c # d
    /\ \A e \in {c, d} : /\ call[e].pc = "done"
                         /\ call[e].result = Success
                         /\ call[e].wrote = "insert"
                         /\ call[e].outcome = "zero"
    /\ PairOf(call[c]) = PairOf(call[d])
    /\ call[c].op = "mark" /\ call[d].op = "toggle"
    /\ CountFor(records, call[c].memberId, call[c].serviceId) = 2

\* C6: a toggleAttendance call that overlaps no other call, and whose round
\* trips the store answers, deletes the attendance of its pair when at
\* least one record exists for it (leaving none) and creates exactly one
\* record when none exists.
C6_ToggleFlipsPresence ==
  [][(/\ call[1].pc = "write"
      /\ call[1].op = "toggle"
      /\ call[1].outcome # "fault"
      /\ ForeignKeysOk(call[1].memberId, call[1].serviceId)
      /\ (Unmark(1, FALSE) \/ Mark(1, FALSE)))
     => CountFor(records', call[1].memberId, call[1].serviceId)
          = (IF CountFor(records, call[1].memberId, call[1].serviceId) >= 1
             THEN 0 ELSE 1)]_vars

\* C7: a markAttendance call whose existence read runs while at least one
\* record exists for its pair returns the duplicate error and does not
\* go on to insert.
C7_MarkRejectsWhenPresent ==
  [][\A c \in Callers :
       (/\ call[c].pc = "check"
        /\ call[c].op = "mark"
        /\ CountFor(records, call[c].memberId, call[c].serviceId) >= 1
        /\ CheckExisting(c, FALSE))
       => /\ call'[c].pc = "done"
          /\ call'[c].result = ErrDuplicate]_vars

\* C8: a call whose service lookup matches no Service, or fails, ends with
\* 'Failed to fetch service details' at that step; attendance_records is
\* not touched, and no call without a Service row reaches the existence
\* read or the write.
C8_NoServiceNoWrite ==
  [][\A c \in Callers :
       (/\ call[c].pc = "fetch"
        /\ call'[c].pc # "fetch"
        /\ (ServiceRows(call[c].serviceId) = {} \/ FetchService(c, TRUE)))
       => /\ call'[c].pc = "done"
          /\ call'[c].result = ErrFetchService
          /\ call'[c].wrote = "none"
          /\ records' = records]_vars

C8_Witness ==
  \E c \in Callers :
    /\ call[c].pc = "done"
    /\ call[c].result = ErrFetchService
    /\ call[c].serviceId = BadId
    /\ call[c].memberId \in MemberIdSet
    /\ call[c].op = "toggle"
    /\ records # {}

\* C9: after a successful markAttendance(m, s) a following
\* toggleAttendance(m, s) takes the delete branch, succeeds and leaves
\* attendance_records as it was before the mark; the service's attendance
\* is then empty when it had no other attendee.
C9_MarkThenToggleRestores ==
  (Len(hist) >= 1 /\ hist[1].op = "mark" /\ hist[1].result = Success) =>
    /\ (/\ Len(hist) = 1
        /\ call[1].pc = "write"
        /\ call[1].op = "toggle"
        /\ call[1].outcome # "fault") => existingRecord(1)
    /\ (Len(hist) >= 2 /\ hist[2].op = "toggle") => hist[2].result = Success
    /\ (Len(hist) = 2 /\ hist[2].op = "toggle") =>
         /\ records = hist0
         /\ getServiceAttendance(hist[1].serviceId)
              = {r \in hist0 : r.service_id = hist[1].serviceId}

\* C10: the delete of a toggleAttendance call that read 'present' succeeds
\* and leaves no record for its pair, also when another call's delete ran
\* first and no row is left to delete; no other pair's record is touched
\* and nothing is added.
C10_DeleteIsIdempotent ==
  [][\A c \in Callers :
       Unmark(c, FALSE)
       => /\ call'[c].result = Success
          /\ CountFor(records', call[c].memberId, call[c].serviceId) = 0
          /\ records' \subseteq records
          /\ \A r \in records :
               <<r.member_id, r.service_id>> # PairOf(call[c]) => r \in records']_vars

C10_Witness ==
  \E c, d \in Callers :
    /\ c # d
    /\ \A e \in {c, d} : /\ call[e].pc = "done"
                         /\ call[e].op = "toggle"
                         /\ call[e].result = Success
                         /\ call[e].wrote = "delete"
                         /\ call[e].outcome = "one"
    /\ PairOf(call[c]) = PairOf(call[d])
    /\ CountFor(records, call[c].memberId, call[c].serviceId) = 0
    /\ records # {}

\* C11: no two Services ever share a date, in whatever order addService
\* calls reach the store: an addService that does not throw has created
\* exactly one Service, so one for a date already taken throws, and one
\* that throws has created none.
C11_ServiceDatesUnique ==
  [][/\ \A a, b \in services' : a.service_date = b.service_date => a = b
     /\ (out'.op = "addService" /\ out'.raised = NoResult)
          => (services \subseteq services' /\ Cardinality(services') = Cardinality(services) + 1)
     /\ (out'.op = "addService" /\ out'.raised # NoResult) => services' = services]_vars

C11_Witness ==
  /\ Cardinality(services) = 2
  /\ out.op = "addService"
  /\ out.raised = ErrAddService

\* C12: an operation that ends in an error leaves the store as it was: a
\* markAttendance or toggleAttendance call that returns an error changed
\* nothing in any of its steps (a call changes attendance_records only in
\* the step that returns success), and an addMember or addService that
\* throws leaves members, services and attendance_records unchanged.
C12_FailedOperationChangesNothing ==
  [][/\ (call[1].pc # "done" /\ call'[1].pc = "done" /\ call'[1].result # Success)
          => UNCHANGED <<members, services, records>>
     /\ records' # records => (call'[1].pc = "done" /\ call'[1].result = Success)
     /\ out'.raised # NoResult => UNCHANGED <<members, services, records>>]_vars

C12_Witness ==
  /\ call[1].pc = "done"
  /\ call[1].result = ErrUnmark
  /\ out.op = "addMember"
  /\ out.raised = ErrFullName
  /\ Cardinality(members) = 1
  /\ records # {}

\* the records the rows of a listing stand for
RecordOf(row) == CHOOSE r \in records : r.id = row.id

\* the number of records the page shows under a service name
GroupSize(rows, name) ==
  IF name \in DOMAIN recordsByService(rows) THEN Len(recordsByService(rows)[name]) ELSE 0

\* C13: grouping what getAttendanceRecords() returns by service name gives,
\* for every Service, a group with as many records as getServiceAttendance
\* returns for that Service, also when several Services carry one name.
C13_GroupCountMatchesServiceCount ==
  (out.op = "getAttendanceRecords" /\ out.raised = NoResult) =>
    \A sv \in services :
      GroupSize(out.rows, sv.name) = Cardinality({r \in records : r.service_id = sv.id})

C15_MembersByFullName ==
  (out.op \in {"getMembers", "adminGetMembers"} /\ out.raised = NoResult) =>
    /\ {out.rows[i].id : i \in DOMAIN out.rows} = {mb.id : mb \in members}
    /\ Len(out.rows) = Cardinality(members)
    /\ \A i, j \in DOMAIN out.rows :
         i < j => Rank(out.rows[i].full_name) <= Rank(out.rows[j].full_name)

\* C15 as the code has it: the attendance page lists every Member by full
\* name ascending; the admin directory lists every Member newest first.
C15_MemberListOrders ==
  /\ (out.op \in {"getMembers", "adminGetMembers"} /\ out.raised = NoResult) =>
       /\ {out.rows[i] : i \in DOMAIN out.rows} = members
       /\ Len(out.rows) = Cardinality(members)
  /\ (out.op = "getMembers" /\ out.raised = NoResult) =>
       \A i, j \in DOMAIN out.rows :
         i < j => Rank(out.rows[i].full_name) <= Rank(out.rows[j].full_name)
  /\ (out.op = "adminGetMembers" /\ out.raised = NoResult) =>
       \A i, j \in DOMAIN out.rows : i < j => out.rows[i].id > out.rows[j].id

C15_Witness ==
  /\ out.op = "getMembers"
  /\ Len(out.rows) = 2
  /\ out.rows[1].full_name = "Ann" /\ out.rows[1].id = 2
  /\ out.rows[2].full_name = "Bob" /\ out.rows[2].id = 1

\* C16: the attendance loaded for a service id is exactly the records of
\* that service; when the store answers it is never an error, and it is the
\* empty sequence when the service has no record; for the empty service id
\* it is the empty sequence whatever the store does.
C16_ServiceAttendanceExact ==
  [][/\ (out'.op = "getServiceAttendance" /\ out'.raised = NoResult)
          => /\ {out'.rows[i] : i \in DOMAIN out'.rows}
                  = {r \in records : r.service_id = out'.arg}
             /\ Len(out'.rows) = Cardinality({r \in records : r.service_id = out'.arg})
             /\ out'.arg = NoId => out'.rows = <<>>
     /\ out'.op = "getServiceAttendance"
          => /\ \A s \in ServiceArgs : fetchAttendance(s, FALSE) => out'.raised = NoResult
             /\ out'.arg = NoId => (out'.raised = NoResult /\ out'.rows = <<>>)]_vars

C16_Witness ==
  /\ out.op = "getServiceAttendance"
  /\ out.arg \in {sv.id : sv \in services}
  /\ out.raised = NoResult
  /\ out.rows = <<>>
  /\ records # {}

\* C17: markAttendance and toggleAttendance end in a returned result, and no
\* listing (getServiceAttendance, getAttendanceRecords, the member and
\* service lists) ever throws, also when the store fails.
C17_OnlyDirectoryCreatesThrow ==
  /\ call[1].pc = "done" => call[1].result # NoResult
  /\ out.op \notin {"none", "addMember", "addService"} => out.raised = NoResult

\* C18: every AttendanceRecord's copied service date is the date of the
\* Service it references, and a record a call inserts carries the call's
\* ids and the date its Service lookup read.
C18_CopiedDateIsServiceDate ==
  [][/\ \A r \in records' : \A sv \in services' :
          sv.id = r.service_id => r.service_date = sv.service_date
     /\ \A r \in records' \ records :
          /\ r.member_id = call[1].memberId
          /\ r.service_id = call[1].serviceId
          /\ r.service_date = call[1].service_date]_vars

C18_Witness ==
  \E r1, r2 \in records :
    /\ r1.service_date = 1 /\ r2.service_date = 2
    /\ r1.service_id # r2.service_id
    /\ call[1].pc = "done" /\ call[1].wrote = "insert"

\* C19: every AttendanceRecord references a Member and a Service that
\* exist; a call whose write runs for a memberId matching no Member
\* inserts nothing, and returns 'Failed to mark attendance' when it tried
\* to insert or when the id never matched a Member; deleting a Member or a
\* Service removes exactly the records that reference it.
C19_NoOrphanedRecords ==
  [][/\ \A r \in records' : /\ \E mb \in members' : mb.id = r.member_id
                            /\ \E sv \in services' : sv.id = r.service_id
     /\ (/\ call[1].pc = "write" /\ call'[1].pc = "done"
         /\ ~\E mb \in members : mb.id = call[1].memberId)
          => /\ records' \subseteq records
             /\ ~(call[1].op = "toggle" /\ call[1].outcome = "one")
                  => (call'[1].result = ErrMark /\ records' = records)
             /\ call[1].memberId \notin gone.members => call'[1].result = ErrMark
     /\ (members' # members /\ members' \subseteq members)
          => records' = {r \in records : \E mb \in members' : mb.id = r.member_id}
     /\ (services' # services /\ services' \subseteq services)
          => records' = {r \in records : \E sv \in services' : sv.id = r.service_id}]_vars

C19_Witness ==
  /\ gone.members # {}
  /\ records # {}
  /\ call[1].pc = "done"
  /\ call[1].memberId \in gone.members
  /\ call[1].result = ErrMark

\* C20: addMember with an empty full name throws and creates no Member;
\* with a full name and a working store it creates exactly one new Member
\* of that name, also when a Member of that name exists already.
C20_AddMemberCreatesOne ==
  [][out'.op = "addMember" =>
       /\ out'.raised = NoResult
            => /\ members \subseteq members'
               /\ Cardinality(members') = Cardinality(members) + 1
       /\ out'.raised # NoResult => members' = members
       /\ \A fault \in BOOLEAN : SubmitMember("", fault) => out'.raised = ErrFullName
       /\ \A n \in NameSet \ {""} :
            SubmitMember(n, FALSE)
            => /\ out'.raised = NoResult
               /\ \E mb \in members' \ members : mb.full_name = n]_vars

C20_Witness ==
  /\ out.op = "addMember"
  /\ out.raised = NoResult
  /\ \E a, b \in members : a # b /\ a.full_name = b.full_name

\* C21: an addService whose name or date is empty throws the validation
\* error and leaves the services table as it was, whatever the other fields
\* are; with a name and a free date it creates the Service although the
\* description is empty.
C21_AddServiceValidates ==
  [][out'.op = "addService" =>
       /\ out'.raised = ErrServiceRequired => services' = services
       /\ \A n \in DirServiceNameSet, x \in DescriptionSet, d \in DateSet, f \in BOOLEAN :
            (SubmitService(n, x, d, f) /\ (n = "" \/ d = NoDate))
              => (out'.raised = ErrServiceRequired /\ services' = services)
       /\ \A n \in DirServiceNameSet \ {""}, d \in DateSet \ {NoDate} :
            (SubmitService(n, NoText, d, FALSE) /\ ~\E sv \in services : sv.service_date = d)
              => /\ out'.raised = NoResult
                 /\ \E sv \in services' \ services :
                      sv.name = n /\ sv.service_date = d /\ sv.description = NoText]_vars

C21_Witness ==
  /\ out.op = "addService"
  /\ out.raised = ErrServiceRequired
  /\ \E sv \in services : sv.description = NoText

\* C23: no step of any operation removes or rewrites a Member or a Service,
\* no step rewrites an AttendanceRecord, a record leaves the table only in
\* the delete of a toggleAttendance call for the record's own (member,
\* service) pair, and no step of a markAttendance call removes a record.
C23_OnlyToggleRemoves ==
  [][/\ members \subseteq members'
     /\ services \subseteq services'
     /\ \A r \in records, q \in records' : r.id = q.id => q = r
     /\ \A r \in records \ records' :
          \E c \in Callers :
            /\ call[c].op = "toggle" /\ call[c].pc = "write"
            /\ call'[c].pc = "done" /\ call'[c].wrote = "delete"
            /\ r.member_id = call[c].memberId /\ r.service_id = call[c].serviceId
     /\ \A c \in Callers :
          (call[c].op = "mark" /\ call'[c] # call[c]) => records \subseteq records']_vars

C23_Witness ==
  /\ \E c \in Callers : call[c].pc = "done" /\ call[c].wrote = "delete"
  /\ records # {}
  /\ Cardinality(members) = MaxMembers

\* C24: a markAttendance or toggleAttendance call has signalled the refresh
\* of '/attendance' exactly when it has returned success: a call still under
\* way has not signalled it, a call that returned an error has not, and a
\* call that returned success has.
C24_RevalidatesExactlyOnSuccess ==
  \A c \in Callers :
    call[c].revalidated <=> (call[c].pc = "done" /\ call[c].result = Success)

C24_Witness ==
  \E c, d \in Callers :
    /\ call[c].pc = "done" /\ call[c].result = Success /\ call[c].revalidated
    /\ call[d].pc = "done" /\ call[d].result = ErrMark /\ ~call[d].revalidated

\* C25: a call under way eventually returns, provided the store answers each
\* of its round trips; a call only moves forward through its round trips and
\* never goes back to one it has made (no retry); attendance_records changes
\* at most once per call, in the step that ends the call; all this whatever
\* the other caller does meanwhile.
PcOrder == [idle |-> 0, fetch |-> 1, check |-> 2, write |-> 3, done |-> 4]

C25_CallsReturnWithOneWrite ==
  /\ \A c \in Callers : (c \in InFlight) ~> (call[c].pc = "done")
  /\ [][\A c \in Callers :
          /\ call[c].pc # "done" => PcOrder[call'[c].pc] >= PcOrder[call[c].pc]
          /\ call[c].pc = "done" => call'[c].pc \in {"done", "idle"}
          /\ (call'[c] # call[c] /\ records' # records)
               => (call[c].pc = "write" /\ call'[c].pc = "done"
                   /\ call'[c].wrote \in {"insert", "delete"})]_vars

C25_Witness ==
  /\ call[1].pc = "done" /\ call[1].wrote = "insert"
  /\ call[2].pc = "done" /\ call[2].result = ErrMark
  /\ Cardinality(records) = MaxRecords

\* C26: a call inserts an AttendanceRecord only when its existence read
\* succeeded and matched no row: after a failed read, or a read that
\* matched more than one row, the call inserts nothing.
C26_InsertOnlyAfterCleanAbsence ==
  [][\A c \in Callers :
       (call[c].pc = "write" /\ call'[c].pc = "done" /\ call'[c].wrote = "insert")
         => call[c].outcome = "zero"]_vars

\* C28: a step of a markAttendance or toggleAttendance call for (m, s),
\* whatever its outcome and whatever the other caller is doing, adds or
\* removes only AttendanceRecords of the pair (m, s), rewrites no record,
\* and leaves members and services as they were.
C28_CallTouchesOwnPairOnly ==
  [][\A c \in Callers :
       call'[c] # call[c] =>
         /\ members' = members
         /\ services' = services
         /\ \A r \in (records \ records') \cup (records' \ records) :
              r.member_id = call'[c].memberId /\ r.service_id = call'[c].serviceId
         /\ \A r \in records, q \in records' : r.id = q.id => q = r]_vars

C28_Witness ==
  \E c, d \in Callers :
    /\ call[c].pc = "done" /\ call[c].wrote = "delete"
    /\ call[d].pc = "done" /\ call[d].wrote = "insert"
    /\ PairOf(call[c]) # PairOf(call[d])
    /\ \E r \in records : <<r.member_id, r.service_id>> = PairOf(call[d])

\* C27: from every reachable table with no call under way, for every pair
\* (m, s), some sequence of at most MaxRepair markAttendance /
\* toggleAttendance calls, run one after the other, leaves the pair with at
\* most one record.
RECURSIVE Recoverable(_, _, _, _)
Recoverable(recs, m, s, n) ==
  \/ CountFor(recs, m, s) <= 1
  \/ /\ n > 0
     /\ \E op \in {"mark", "toggle"}, f1, f2, f3 \in BOOLEAN :
          Recoverable(AfterCall(recs, op, m, s, f1, f2, f3), m, s, n - 1)

C27_DuplicatesRecoverable ==
  (\A c \in Callers : call[c].pc = "idle")
    => \A mb \in members, sv \in services : Recoverable(records, mb.id, sv.id, MaxRepair)

\* C22: while an operation started from the page is outstanding, the submit
\* button and the toggle buttons are disabled, and the page never has two
\* of its own operations in flight.
C22_PendingDisablesButtons ==
  /\ isPending => (SubmitDisabled /\ ToggleDisabled)
  /\ Cardinality({c \in Callers : call[c].pc # "idle"}) <= 1

\* C29: when no getServiceAttendance fetch of the page is outstanding, the
\* list the page holds is the one fetched for the selected service, and is
\* empty when no service is selected.
C29_ListMatchesSelection ==
  (page.fetching = {} /\ \A c \in Callers : call[c].pc # "refresh")
    => IF page.selectedServiceId = NoId
       THEN page.serviceAttendance = {}
       ELSE page.listFor = page.selectedServiceId

====
